---- MODULE Spec2Model ----
(***************************************************************************)
(* Model of the vocabulary matching game of src/vocab/flask_vocab.py: the  *)
(* per-client cookie session (jumble, target_count, matches), the page     *)
(* handlers index / keep_going / success and the two check handlers check  *)
(* (/_check) and check_word (/_check/word).                                *)
(*                                                                         *)
(* Strings are sequences of one-character strings.  A JSON object or a     *)
(* Python dict is a function from its keys; an absent key is absent from   *)
(* the DOMAIN.                                                             *)
(***************************************************************************)
EXTENDS Integers, Sequences, FiniteSets, TLC

VARIABLES SUCCESS_AT_COUNT, \* CONFIG.SUCCESS_AT_COUNT
          SEED,             \* module global SEED after lines 35-39
          session,          \* client -> the session cookie the client holds
          req,              \* the request handled last
          resp,             \* the response sent for it
          matches           \* the handler's local list `matches` when it returned

vars == <<SUCCESS_AT_COUNT, SEED, session, req, resp, matches>>

\* ------------------------------------------------------------------ bounds
MaxSuccess == 3

\* ----------------------------------------------------------------- strings
\* Python's None, and an int n held where None can be held too.
None == <<>>
Some(n) == <<n>>

at == <<"a", "t">>
cat == <<"c", "a", "t">>
At == <<"A", "t">>
dd == <<"d", "d">>
empty == <<>>

\* The candidate texts a client submits.
Candidates == {at, cat, At, dd, empty}

\* The browsers that hold a session cookie.
Clients == {"p", "q"}

\* str.lower() on one character of the alphabet in use.
Lower(c) == IF c = "A" THEN "a" ELSE c

LowerStr(s) == [i \in DOMAIN s |-> Lower(s[i])]

\* Number of occurrences of character c in string s.
Count(s, c) == Cardinality({i \in DOMAIN s : s[i] = c})

Chars(s) == {s[i] : i \in DOMAIN s}

Min(a, b) == IF a <= b THEN a ELSE b

\* ------------------------------------------------------------- LetterBag
\* LetterBag(jumble).contains(text): every character of text occurs in text
\* at most as often as in jumble, both case-normalised.
LetterBagContains(jumble, text) ==
    LET j == LowerStr(jumble)
        t == LowerStr(text)
    IN  \A c \in Chars(t) : Count(t, c) <= Count(j, c)

\* ------------------------------------------------------------------ Vocab
\* WORDS.as_list(): the vocabulary in load order, lower case.
WORDS == <<at, cat>>

\* WORDS.has(text): case-insensitive exact membership.
Has(text) == \E i \in DOMAIN WORDS : WORDS[i] = LowerStr(text)

\* ----------------------------------------------------------------- jumble
Rotate(s, k) ==
    [i \in DOMAIN s |-> s[((i - 1 + k) % Len(s)) + 1]]

RECURSIVE Concat(_, _)
\* Concatenation of the words vocab[i], i in idx, in list order.
Concat(vocab, idx) ==
    IF idx = {} THEN <<>>
    ELSE LET i == CHOOSE x \in idx : \A y \in idx : x <= y
         IN  vocab[i] \o Concat(vocab, idx \ {i})

\* The selections of n words of vocab.
Selections(vocab, n) == {idx \in SUBSET DOMAIN vocab : Cardinality(idx) = n}

\* jumbled(vocab, n, seed): the set of strings the call can return.  The
\* letters of n selected words are pooled and permuted; a seed fixes both the
\* selection and the permutation, no seed leaves both open.
jumbled(vocab, n, seed) ==
    IF seed = None
    THEN UNION {{Rotate(Concat(vocab, idx), k) :
                    k \in 0..(Len(Concat(vocab, idx)) - 1)} :
                idx \in Selections(vocab, n)}
    ELSE LET first == (seed[1] % Len(vocab)) + 1
             idx == {((first - 1 + d) % Len(vocab)) + 1 : d \in 0..(n - 1)}
         IN  {Rotate(Concat(vocab, idx), seed[1] % Len(Concat(vocab, idx)))}

\* ------------------------------------------------------------------- SEED
\* The texts CONFIG.SEED can hold.
SeedTexts == {"", "-1", "0", "1"}

\* int(SEED) of lines 36-39: the integer, or None on ValueError.
ParseSeed(txt) ==
    CASE txt = "-1" -> Some(-1)
      [] txt = "0" -> Some(0)
      [] txt = "1" -> Some(1)
      [] OTHER -> None

\* The seed argument index passes to jumbled (line 54):
\* None if not SEED or SEED < 0 else SEED.
SeedArg(seed) ==
    IF seed = None THEN None
    ELSE IF seed[1] = 0 \/ seed[1] < 0 THEN None ELSE seed

\* ---------------------------------------------------------------- session
\* A session cookie that holds no key.
EmptySession == <<>>

Initialized(s) == {"jumble", "target_count", "matches"} \subseteq DOMAIN s

\* flask.session.get("matches", [])
GetMatches(s) == IF "matches" \in DOMAIN s THEN s.matches ELSE <<>>

InList(text, list) == \E i \in DOMAIN list : list[i] = text

Init ==
    /\ SUCCESS_AT_COUNT \in 1..MaxSuccess
    /\ SEED \in {ParseSeed(txt) : txt \in SeedTexts}
    /\ session = [c \in Clients |-> EmptySession]
    /\ req = [handler |-> "none"]
    /\ resp = <<>>
    /\ matches = <<>>

\* ------------------------------------------------------------------ pages
\* Mutant: the threshold is taken without the min.
TargetCountNoMin(nwords, threshold) == threshold

\* min(len(flask.g.vocab), CONFIG.SUCCESS_AT_COUNT) of lines 51-52.
TargetCount(nwords, threshold) == Min(nwords, threshold)

\* Mutant: line 55 is missing, the matches of the earlier game stay.
IndexSessionKeepsMatches(s, target, jumble) ==
    ("target_count" :> target) @@ ("jumble" :> jumble) @@ s
    @@ ("matches" :> <<>>)

\* The session after lines 51-55: the three keys are assigned, every other
\* key of the cookie stays.
IndexSession(s, target, jumble) ==
    ("target_count" :> target) @@ ("jumble" :> jumble) @@ ("matches" :> <<>>)
    @@ s

\* index(): lines 48-60.  The three session keys are assigned before the two
\* assertions run, and the cookie is saved with the response either way.
index(c) ==
    LET target == TargetCount(Len(WORDS), SUCCESS_AT_COUNT)
    IN  \E jumble \in jumbled(WORDS, target, SeedArg(SEED)) :
          /\ session' = [session EXCEPT ![c] = IndexSession(@, target, jumble)]
          /\ req' = [handler |-> "index", client |-> c]
          /\ resp' = IF session'[c].matches = <<>> /\ session'[c].target_count > 0
                     THEN [page |-> "vocab.html"]
                     ELSE [status |-> 500]
          /\ matches' = <<>>
          /\ UNCHANGED <<SUCCESS_AT_COUNT, SEED>>

\* Mutant: keep_going draws a new jumble as index does.
keep_goingJumbles(c) ==
    /\ req' = [handler |-> "keep_going", client |-> c]
    /\ resp' = [page |-> "vocab.html"]
    /\ matches' = <<>>
    /\ \E jumble \in jumbled(WORDS, TargetCount(Len(WORDS), SUCCESS_AT_COUNT),
                             SeedArg(SEED)) :
          session' = [session EXCEPT ![c] =
              IF Initialized(@) THEN [@ EXCEPT !.jumble = jumble] ELSE @]
    /\ UNCHANGED <<SUCCESS_AT_COUNT, SEED>>

\* keep_going(): lines 63-70.
keep_going(c) ==
    /\ req' = [handler |-> "keep_going", client |-> c]
    /\ resp' = [page |-> "vocab.html"]
    /\ matches' = <<>>
    /\ UNCHANGED <<SUCCESS_AT_COUNT, SEED, session>>

\* success(): lines 73-75.
success(c) ==
    /\ req' = [handler |-> "success", client |-> c]
    /\ resp' = [page |-> "success.html"]
    /\ matches' = <<>>
    /\ UNCHANGED <<SUCCESS_AT_COUNT, SEED, session>>

\* ------------------------------------------------------------------ check
\* Mutant: the last elif tests in_jumble instead of not in_jumble.
CheckBranchSlip(matched, in_jumble, already) ==
    IF matched /\ in_jumble /\ ~already THEN "ACCEPTED"
    ELSE IF already THEN "DUPLICATE"
    ELSE IF ~matched THEN "NOT_A_WORD"
    ELSE IF in_jumble THEN "NOT_FROM_JUMBLE"
    ELSE "ASSERT"

\* The branch the if/elif chain of lines 106-118 takes.
CheckBranch(matched, in_jumble, already) ==
    IF matched /\ in_jumble /\ ~already THEN "ACCEPTED"
    ELSE IF already THEN "DUPLICATE"
    ELSE IF ~matched THEN "NOT_A_WORD"
    ELSE IF ~in_jumble THEN "NOT_FROM_JUMBLE"
    ELSE "ASSERT"

\* Mutant: the new word is put in front of the list.
CheckMatchesInFront(text, s) ==
    LET m == GetMatches(s)
        branch == CheckBranch(Has(text), LetterBagContains(s.jumble, text),
                              InList(text, m))
    IN  IF branch = "ACCEPTED" THEN <<text>> \o m ELSE m

\* The local list `matches` of check after line 118.
CheckMatches(text, s) ==
    LET m == GetMatches(s)
        branch == CheckBranch(Has(text), LetterBagContains(s.jumble, text),
                              InList(text, m))
    IN  IF branch = "ACCEPTED" THEN Append(m, text) ELSE m

\* The dict `result` of check after line 124, for a branch that did not raise.
CheckResult(text, s) ==
    LET m == GetMatches(s)
        branch == CheckBranch(Has(text), LetterBagContains(s.jumble, text),
                              InList(text, m))
        redirect == IF Len(CheckMatches(text, s)) >= s.target_count
                    THEN "success" ELSE "keep_going"
    IN  (IF branch = "ACCEPTED"
         THEN ("matches" :> CheckMatches(text, s))
         ELSE ("message" :> [kind |-> branch, text |-> text]))
        @@ ("redirect" :> redirect)

\* Mutant: a session without jumble is answered with a result instead of the
\* error of the missing key.
CheckResponseNoJumble(text, s) ==
    IF "jumble" \notin DOMAIN s
    THEN ("result" :> (("message" :> [kind |-> "NOT_FROM_JUMBLE", text |-> text])
                       @@ ("redirect" :> "keep_going")))
    ELSE IF "matches" \notin DOMAIN CheckResult(text, s)
         THEN ("error" :> "'matches'")
    ELSE ("result" :> CheckResult(text, s))

\* What check returns: jsonify(result=result), or jsonify(error=str(e)) when
\* a line of the try block raised (lines 96-131).
CheckResponse(text, s) ==
    IF "jumble" \notin DOMAIN s THEN ("error" :> "'jumble'")
    ELSE IF CheckBranch(Has(text), LetterBagContains(s.jumble, text),
                        InList(text, GetMatches(s))) = "ASSERT"
         THEN ("error" :> "")
    ELSE IF "target_count" \notin DOMAIN s THEN ("error" :> "'target_count'")
    ELSE IF "matches" \notin DOMAIN CheckResult(text, s)
         THEN ("error" :> "'matches'")
    ELSE ("result" :> CheckResult(text, s))

\* check(): lines 85-131.  The list is appended to in place and no key of
\* flask.session is assigned, so the cookie is not sent again.
check(c, text) ==
    /\ req' = [handler |-> "check", client |-> c, text |-> text]
    /\ resp' = CheckResponse(text, session[c])
    /\ matches' = IF "jumble" \in DOMAIN session[c]
                  THEN CheckMatches(text, session[c]) ELSE <<>>
    /\ UNCHANGED <<SUCCESS_AT_COUNT, SEED, session>>

\* ------------------------------------------------------------- check_word
\* Mutant: a word already found is accepted again.
WordAcceptedAgain(valid_word, already_found) == valid_word

\* Mutant: a candidate that is not valid is accepted.
WordAcceptedInvalid(valid_word, already_found) == ~already_found

\* The condition of line 165 on the response fields of lines 159-162.
WordAccepted(valid_word, already_found) == valid_word /\ ~already_found

\* Mutant: the candidate is appended whatever the response says.
WordMatchesAlways(text, s) == Append(GetMatches(s), text)

\* Mutant: the accepted word is stored in front of the earlier entries.
WordMatchesInFront(text, s) ==
    LET m == GetMatches(s)
    IN  IF Has(text) /\ LetterBagContains(s.jumble, text) /\ ~InList(text, m)
        THEN <<text>> \o m ELSE m

\* The local list `matches` of check_word after line 167.
WordMatches(text, s) ==
    LET m == GetMatches(s)
    IN  IF WordAccepted(Has(text) /\ LetterBagContains(s.jumble, text),
                        InList(text, m))
        THEN Append(m, text) ELSE m

\* Mutant: the success redirect needs more than target_count matches.
WordResponseLate(text, s) ==
    [valid_word |-> Has(text) /\ LetterBagContains(s.jumble, text),
     already_found |-> InList(text, GetMatches(s))]
    @@ (IF Len(WordMatches(text, s)) > s.target_count
        THEN ("redirect_url" :> "success") ELSE <<>>)

\* The dict `response` of check_word after line 171.
WordResponse(text, s) ==
    [valid_word |-> Has(text) /\ LetterBagContains(s.jumble, text),
     already_found |-> InList(text, GetMatches(s))]
    @@ (IF Len(WordMatches(text, s)) >= s.target_count
        THEN ("redirect_url" :> "success") ELSE <<>>)

\* Mutant: the list of matches is one list shared by all sessions.
check_wordShared(c, text) ==
    /\ req' = [handler |-> "check_word", client |-> c, text |-> text]
    /\ IF Initialized(session[c])
       THEN /\ resp' = ("result" :> WordResponse(text, session[c]))
            /\ matches' = WordMatches(text, session[c])
            /\ session' = [d \in Clients |->
                   IF Initialized(session[d])
                   THEN [session[d] EXCEPT
                             !.matches = WordMatches(text, session[c])]
                   ELSE session[d]]
       ELSE /\ resp' = [status |-> 500]
            /\ matches' = <<>>
            /\ UNCHANGED session
    /\ UNCHANGED <<SUCCESS_AT_COUNT, SEED>>

\* check_word(): lines 147-173.  A missing session key raises out of the
\* handler (status 500); an accepted word is assigned back to the session.
check_word(c, text) ==
    /\ req' = [handler |-> "check_word", client |-> c, text |-> text]
    /\ IF Initialized(session[c])
       THEN /\ resp' = ("result" :> WordResponse(text, session[c]))
            /\ matches' = WordMatches(text, session[c])
            /\ session' = [session EXCEPT ![c] =
                   [@ EXCEPT !.matches = WordMatches(text, session[c])]]
       ELSE /\ resp' = [status |-> 500]
            /\ matches' = <<>>
            /\ UNCHANGED session
    /\ UNCHANGED <<SUCCESS_AT_COUNT, SEED>>

\* -------------------------------------------------------------------- Next
\* One request of client c.
Request(c) ==
    \/ index(c)
    \/ keep_going(c)
    \/ success(c)
    \/ \E text \in Candidates : check(c, text)
    \/ \E text \in Candidates : check_word(c, text)

\* The requests of one player.
Next == Request("p")

Spec == Init /\ [][Next]_vars

TypeOK == \A c \in Clients : session[c] = EmptySession \/ Initialized(session[c])

\* ================================================================= claims
IsCheck(r) == r.handler \in {"check", "check_word"}

\* The candidate is a vocabulary word, spellable from the session's jumble
\* and not yet in the session's matches.
NewValid(text, s) ==
    /\ Has(text)
    /\ LetterBagContains(s.jumble, text)
    /\ ~InList(text, s.matches)

\* C1: in an initialized session a check of a candidate that is a vocabulary
\* word, spellable from the jumble and not yet in matches appends the
\* candidate once at the end of matches, keeps the earlier entries, and
\* reports it: check returns the updated matches, check_word returns a valid,
\* not-already-found result and stores the updated matches.
C1_AcceptAppends ==
    [][(/\ IsCheck(req')
        /\ Initialized(session[req'.client])
        /\ NewValid(req'.text, session[req'.client]))
       => LET old == session[req'.client].matches
              new == Append(old, req'.text)
          IN  /\ matches' = new
              /\ "result" \in DOMAIN resp'
              /\ req'.handler = "check" =>
                     /\ "matches" \in DOMAIN resp'.result
                     /\ resp'.result.matches = new
              /\ req'.handler = "check_word" =>
                     /\ resp'.result.valid_word
                     /\ ~resp'.result.already_found
                     /\ session'[req'.client].matches = new]_vars

\* A check has returned a second word behind a word found earlier.
C1_Witness ==
    /\ req.handler = "check"
    /\ "result" \in DOMAIN resp
    /\ "matches" \in DOMAIN resp.result
    /\ Len(resp.result.matches) = 2
    /\ resp.result.matches[2] = req.text
    /\ session[req.client].matches = <<resp.result.matches[1]>>

\* The outcome a response carries.  check carries it as the updated matches
\* or as the kind of its message; check_word carries the two flags
\* valid_word and already_found.
Outcome(handler, r) ==
    IF "result" \notin DOMAIN r THEN "ERROR"
    ELSE IF handler = "check"
         THEN IF "matches" \in DOMAIN r.result THEN "ACCEPTED"
              ELSE r.result.message.kind
    ELSE IF r.result.already_found THEN "DUPLICATE"
    ELSE IF r.result.valid_word THEN "ACCEPTED"
    ELSE "INVALID"

\* The precedence of outcomes: duplicate, then not a word, then not from the
\* jumble, then accepted.
Precedence(already, word, spellable) ==
    IF already THEN "DUPLICATE"
    ELSE IF ~word THEN "NOT_A_WORD"
    ELSE IF ~spellable THEN "NOT_FROM_JUMBLE"
    ELSE "ACCEPTED"

\* C2: the outcome of every check on an initialized session is DUPLICATE if
\* the candidate is in matches, otherwise NOT_A_WORD if it is not a
\* vocabulary word, otherwise NOT_FROM_JUMBLE if it is not spellable from the
\* jumble, otherwise ACCEPTED.
C2_OutcomePrecedence ==
    [][(IsCheck(req') /\ Initialized(session[req'.client]))
       => LET s == session[req'.client]
          IN  Outcome(req'.handler, resp') =
                  Precedence(InList(req'.text, s.matches), Has(req'.text),
                             LetterBagContains(s.jumble, req'.text))]_vars

\* C3: a check whose candidate is a duplicate, not a vocabulary word or not
\* spellable from the jumble leaves matches, target_count and jumble of the
\* session as they were, each time it is made.
C3_RejectedLeavesSession ==
    [][(/\ IsCheck(req')
        /\ Initialized(session[req'.client])
        /\ ~NewValid(req'.text, session[req'.client]))
       => /\ session'[req'.client].matches = session[req'.client].matches
          /\ session'[req'.client].target_count
                 = session[req'.client].target_count
          /\ session'[req'.client].jumble = session[req'.client].jumble
          /\ matches' = session[req'.client].matches]_vars

\* check_word has rejected a candidate on a session that holds a match.
C3_Witness ==
    /\ req.handler = "check_word"
    /\ Initialized(session[req.client])
    /\ "result" \in DOMAIN resp
    /\ ~(resp.result.valid_word /\ ~resp.result.already_found)
    /\ Len(session[req.client].matches) >= 1
    /\ matches = session[req.client].matches

\* The response tells the client that the game is complete.
SignalsComplete(handler, r) ==
    /\ "result" \in DOMAIN r
    /\ IF handler = "check" THEN r.result.redirect = "success"
       ELSE "redirect_url" \in DOMAIN r.result

\* The response tells the client to keep going.
SignalsKeepGoing(handler, r) ==
    /\ "result" \in DOMAIN r
    /\ IF handler = "check" THEN r.result.redirect = "keep_going"
       ELSE "redirect_url" \notin DOMAIN r.result

\* C4: on an initialized session every check returns a result, never an
\* error response or an exception; the result carries one outcome and the
\* completion signal.
C4_CheckTotal ==
    (IsCheck(req) /\ Initialized(session[req.client]))
    => /\ "result" \in DOMAIN resp
       /\ Outcome(req.handler, resp) \in
              {"ACCEPTED", "DUPLICATE", "NOT_A_WORD", "NOT_FROM_JUMBLE",
               "INVALID"}
       /\ \/ SignalsComplete(req.handler, resp)
          \/ SignalsKeepGoing(req.handler, resp)

\* C5: a check response signals completion if and only if the handler's
\* matches, after the classification and the append, holds at least
\* target_count entries; otherwise it signals to keep going.
C5_CompletionSignal ==
    (IsCheck(req) /\ Initialized(session[req.client]))
    => IF Len(matches) >= session[req.client].target_count
       THEN SignalsComplete(req.handler, resp)
       ELSE SignalsKeepGoing(req.handler, resp)

\* The session holds at least target_count matches.
Complete(s) == Initialized(s) /\ Len(s.matches) >= s.target_count

\* C6: once the matches of a session have reached target_count, every later
\* request other than index finds them still at target_count or more, and
\* every later check signals completion.
C6_CompleteTerminal ==
    [][\A c \in Clients :
          (Complete(session[c]) /\ req'.client = c /\ req'.handler # "index")
          => /\ Complete(session'[c])
             /\ IsCheck(req') => SignalsComplete(req'.handler, resp')]_vars

\* C7: a session start, from any prior state of the session, stores
\* matches = [], a generated jumble and a target_count > 0, so that
\* matches.size < target_count right after it, and both assertions of index
\* hold (the page is rendered).
C7_IndexStarts ==
    req.handler = "index"
    => LET s == session[req.client]
       IN  /\ Initialized(s)
           /\ s.matches = <<>>
           /\ s.target_count > 0
           /\ Len(s.matches) < s.target_count
           /\ ~Complete(s)
           /\ s.jumble \in jumbled(WORDS, s.target_count, SeedArg(SEED))
           /\ "page" \in DOMAIN resp

\* index has just started a session whose jumble pools both words.
C7_Witness ==
    /\ req.handler = "index"
    /\ session[req.client].matches = <<>>
    /\ session[req.client].target_count = 2
    /\ Len(session[req.client].jumble) = 5

\* C8: in every session target_count is min(vocabulary size, success
\* threshold), and no request other than index changes it.
C8_TargetCountFixed ==
    /\ [](\A c \in Clients :
            Initialized(session[c])
            => session[c].target_count =
                   (IF Len(WORDS) <= SUCCESS_AT_COUNT
                    THEN Len(WORDS) ELSE SUCCESS_AT_COUNT))
    /\ [][\A c \in Clients :
            (Initialized(session[c]) /\ req'.handler # "index")
            => session'[c].target_count = session[c].target_count]_vars

\* A word was accepted in a session whose target_count is the vocabulary
\* size, below the configured threshold.
C8_Witness ==
    /\ req.handler = "check_word"
    /\ Initialized(session[req.client])
    /\ session[req.client].target_count = Len(WORDS)
    /\ SUCCESS_AT_COUNT > Len(WORDS)
    /\ Len(session[req.client].matches) >= 1

NoDuplicates(list) ==
    \A i, j \in DOMAIN list : list[i] = list[j] => i = j

\* C9: matches holds no word twice, in the session and in the list a check
\* handler returns.
C9_NoDuplicates ==
    /\ \A c \in Clients : NoDuplicates(GetMatches(session[c]))
    /\ NoDuplicates(matches)

\* A found word was submitted again to a session that holds two matches.
C9_Witness ==
    /\ req.handler = "check_word"
    /\ "result" \in DOMAIN resp
    /\ resp.result.already_found
    /\ Len(session[req.client].matches) >= 2

\* Every entry of the list is a vocabulary word spellable from jumble.
AllValid(list, jumble) ==
    \A i \in DOMAIN list : Has(list[i]) /\ LetterBagContains(jumble, list[i])

\* C10: every entry of matches is a vocabulary word and is contained in the
\* letters of the jumble the session holds now; the jumble changes only in a
\* step that leaves matches empty.
C10_MatchesValid ==
    /\ [](/\ \A c \in Clients :
               Initialized(session[c])
               => AllValid(session[c].matches, session[c].jumble)
          /\ (IsCheck(req) /\ Initialized(session[req.client]))
               => AllValid(matches, session[req.client].jumble))
    /\ [][\A c \in Clients :
            (Initialized(session[c])
             /\ session'[c].jumble # session[c].jumble)
            => session'[c].matches = <<>>]_vars

\* A candidate was rejected in a session that holds a match and whose jumble
\* does not spell every vocabulary word.
C10_Witness ==
    /\ req.handler = "check_word"
    /\ Initialized(session[req.client])
    /\ Len(session[req.client].matches) >= 1
    /\ \E i \in DOMAIN WORDS :
           ~LetterBagContains(session[req.client].jumble, WORDS[i])
    /\ ~resp.result.valid_word

\* list is an extension of old: the same entries in the same order, possibly
\* more at the end.
Extends(list, old) ==
    /\ Len(old) <= Len(list)
    /\ \A i \in DOMAIN old : list[i] = old[i]

\* C11: between two session starts the matches a request finds in the
\* session extend the matches every earlier request found: no request other
\* than index removes, replaces or reorders a stored entry.
C11_AppendOnly ==
    [][\A c \in Clients :
          (Initialized(session[c]) /\ ~(req'.handler = "index" /\ req'.client = c))
          => /\ Initialized(session'[c])
             /\ Extends(session'[c].matches, session[c].matches)]_vars

\* A later request finds two stored matches, the second stored behind the
\* first by check_word.
C11_Witness ==
    /\ req.handler = "check_word"
    /\ Initialized(session[req.client])
    /\ Len(session[req.client].matches) = 2
    /\ session[req.client].matches[2] = req.text
    /\ resp.result.valid_word
    /\ ~resp.result.already_found

\* C12: for every configured seed that is an integer >= 0, 0 included, index
\* passes that integer to jumbled, so the jumble is the one that seed fixes.
C12_SeedPassed ==
    (req.handler = "index" /\ SEED # None /\ SEED[1] >= 0)
    => /\ SeedArg(SEED) = SEED
       /\ session[req.client].jumble
              \in jumbled(WORDS, session[req.client].target_count, SEED)

\* C13: a check on a session that lacks jumble, matches or target_count
\* fails with an error, returns no result, accepts no word and leaves the
\* session as it was.
C13_OutOfOrderFails ==
    [][(IsCheck(req') /\ ~Initialized(session[req'.client]))
       => /\ "result" \notin DOMAIN resp'
          /\ \/ "error" \in DOMAIN resp'
             \/ ("status" \in DOMAIN resp' /\ resp'.status = 500)
          /\ matches' = <<>>
          /\ session' = session]_vars

\* check was called before any session start and answered with the error of
\* the missing key.
C13_Witness ==
    /\ req.handler = "check"
    /\ session[req.client] = EmptySession
    /\ "error" \in DOMAIN resp
    /\ resp.error = "'jumble'"

\* ------------------------------------------------------------ two players
\* The candidate texts of the two-player runs.
TwoCandidates == {at, cat, dd}

\* One request of client c in a two-player run.
RequestTwo(c) ==
    \/ index(c)
    \/ keep_going(c)
    \/ success(c)
    \/ \E text \in TwoCandidates : check(c, text)
    \/ \E text \in TwoCandidates : check_word(c, text)

\* No seed is configured, so the two players can hold different jumbles.
InitTwo == Init /\ SEED = None

\* The requests of both players, interleaved in any order.
NextTwo == \E c \in Clients : RequestTwo(c)

SpecTwo == InitTwo /\ [][NextTwo]_vars

\* C14: under any interleaving of the requests of two sessions, a request
\* changes no key of the other session, and what it stores and answers is
\* fixed by the text and the requester's own session alone.
C14_SessionIsolation ==
    [][LET c == req'.client
           s == session[c]
       IN  /\ \A d \in Clients \ {c} : session'[d] = session[d]
           /\ (IsCheck(req') /\ Initialized(s))
              => /\ session'[c].jumble = s.jumble
                 /\ session'[c].target_count = s.target_count
                 /\ Extends(session'[c].matches, s.matches)
                 /\ matches' = IF NewValid(req'.text, s)
                               THEN Append(s.matches, req'.text)
                               ELSE s.matches
                 /\ (Outcome(req'.handler, resp') = "ACCEPTED")
                        <=> NewValid(req'.text, s)
                 /\ req'.handler = "check_word" =>
                        /\ session'[c].matches = matches'
                        /\ resp'.result.already_found
                               <=> InList(req'.text, s.matches)
                        /\ SignalsComplete("check_word", resp')
                               <=> Len(matches') >= s.target_count]_vars

\* Player q had a word accepted while player p holds another jumble and
\* other matches.
C14_Witness ==
    /\ req.handler = "check_word"
    /\ req.client = "q"
    /\ Initialized(session["p"])
    /\ Initialized(session["q"])
    /\ session["p"].jumble # session["q"].jumble
    /\ Len(session["p"].matches) >= 1
    /\ session["q"].matches = <<req.text>>
    /\ ~InList(req.text, session["p"].matches)

\* C15: the final else branch of check's classification is never taken: for
\* every combination of matched, in_jumble and (text in matches) one of the
\* four branches before it is, and no check answers with the assertion's
\* error.
C15_ElseUnreachable ==
    /\ \A matched, in_jumble, already \in BOOLEAN :
           CheckBranch(matched, in_jumble, already) \in
               {"ACCEPTED", "DUPLICATE", "NOT_A_WORD", "NOT_FROM_JUMBLE"}
    /\ (req.handler = "check" /\ "error" \in DOMAIN resp) => resp.error # ""

\* check has classified a vocabulary word that is new and not spellable from
\* the jumble, the case of the last elif.
C15_Witness ==
    /\ req.handler = "check"
    /\ Initialized(session[req.client])
    /\ Has(req.text)
    /\ ~InList(req.text, session[req.client].matches)
    /\ ~LetterBagContains(session[req.client].jumble, req.text)
    /\ Len(session[req.client].matches) >= 1

\* C16: while the stored matches are below target_count, a check that signals
\* completion has accepted a new word and its matches hold exactly
\* target_count entries; a check that leaves matches as they were neither
\* signals completion nor completes the session; and the stored matches reach
\* target_count only in a check that signals completion.
C16_CompletionByAccept ==
    [][LET c == req'.client
           s == session[c]
       IN  (IsCheck(req') /\ Initialized(s) /\ ~Complete(s))
           => /\ SignalsComplete(req'.handler, resp')
                 => /\ NewValid(req'.text, s)
                    /\ matches' = Append(s.matches, req'.text)
                    /\ Len(matches') = s.target_count
              /\ matches' = s.matches
                 => /\ ~SignalsComplete(req'.handler, resp')
                    /\ ~Complete(session'[c])
              /\ Complete(session'[c])
                 => SignalsComplete(req'.handler, resp')]_vars

\* The second of two words needed was accepted and the check signalled
\* completion.
C16_Witness ==
    /\ req.handler = "check_word"
    /\ Initialized(session[req.client])
    /\ session[req.client].target_count = 2
    /\ Len(session[req.client].matches) = 2
    /\ session[req.client].matches[2] = req.text
    /\ "redirect_url" \in DOMAIN resp.result

\* C17: a word accepted by check or check_word is in the session's stored
\* matches after the request, and so in the matches every later request of
\* the session reads until the next index.
C17_AcceptedStored ==
    [][(/\ IsCheck(req')
        /\ Initialized(session[req'.client])
        /\ Outcome(req'.handler, resp') = "ACCEPTED")
       => InList(req'.text, session'[req'.client].matches)]_vars

\* C18: two candidates that differ only in letter case are one word: matches
\* never holds both.
C18_CaseFolded ==
    /\ \A c \in Clients :
           \A i, j \in DOMAIN GetMatches(session[c]) :
               LowerStr(session[c].matches[i]) = LowerStr(session[c].matches[j])
               => i = j
    /\ \A i, j \in DOMAIN matches :
           LowerStr(matches[i]) = LowerStr(matches[j]) => i = j

\* C19: keep_going and success leave jumble, target_count and matches of
\* every session as they were, and a check leaves the jumble as it was.
C19_PagesLeaveSession ==
    [][/\ req'.handler \in {"keep_going", "success"} => session' = session
       /\ (IsCheck(req') /\ Initialized(session[req'.client]))
          => session'[req'.client].jumble = session[req'.client].jumble]_vars

\* keep_going was requested in a session that holds a jumble and a match.
C19_Witness ==
    /\ req.handler = "keep_going"
    /\ Initialized(session[req.client])
    /\ Len(session[req.client].matches) >= 1

\* C20: for every initialized session and candidate, check and check_word
\* accept the same candidates, leave the same stored matches and signal
\* completion under the same condition: each step of one handler ends as the
\* other handler would end it.
C20_HandlersEquivalent ==
    [][LET c == req'.client
           s == session[c]
       IN  /\ (req'.handler = "check" /\ Initialized(s))
              => /\ matches' = WordMatches(req'.text, s)
                 /\ session'[c].matches = WordMatches(req'.text, s)
                 /\ SignalsComplete("check", resp')
                        <=> "redirect_url"
                                \in DOMAIN WordResponse(req'.text, s)
           /\ (req'.handler = "check_word" /\ Initialized(s))
              => /\ matches' = CheckMatches(req'.text, s)
                 /\ SignalsComplete("check_word", resp')
                        <=> Len(CheckMatches(req'.text, s)) >= s.target_count
      ]_vars
====
